---------------------------- MODULE Spec2Model ----------------------------
(***************************************************************************)
(* A model of the mwc_growth helpers:                                      *)
(*   - mwc/stats.py    compute_hpd                                         *)
(*   - mwc/model.py    MWC and SimpleRepression                            *)
(*   - code/compile_data.py   the compilation script                       *)
(*   - code/analysis/cal_factor_EDA.py   log_posterior                     *)
(* Each part has its own specification (SpecHpd, SpecModel, SpecCompile,   *)
(* SpecPosterior); the variables of the other parts stay at their idle     *)
(* values.                                                                 *)
(***************************************************************************)
EXTENDS Integers, Sequences, FiniteSets, TLC

VARIABLES
    \* ---- compute_hpd (mwc/stats.py) ----
    trace,        \* the argument `trace`, a 1-D array
    mass_frac,    \* the argument `mass_frac`, a fraction <<p, q>>
    hpd_pc,       \* position in compute_hpd
    d,            \* local d, the sorted copy
    n,            \* local n
    n_samples,    \* local n_samples
    int_width,    \* local int_width
    min_int,      \* local min_int (0-based)
    hpd_ret,      \* the returned array (<<>> until the return)
    hpd_exc,      \* the exception raised ("" when none)
    \* ---- MWC and SimpleRepression (mwc/model.py) ----
    obj,          \* the class whose constructor was called ("none" before)
    mwc_kwargs,   \* the arguments given to MWC (directly, or as **kwargs)
    rep_args,     \* the arguments R, ep_r, n_ns given to SimpleRepression
    mwc,          \* the attributes of the MWC object
    rep,          \* the attributes of the SimpleRepression object
    init_exc,     \* what the constructor raised (NoExc when it returned)
    pact_ret,     \* what the last mwc.pact() returned or raised
    leak_ret,     \* what the last mwc.leakiness() returned or raised
    fc_args,      \* the arguments wpa, pact of the last fold_change call
    fc_ret,       \* what the last fold_change call returned or raised
    \* ---- code/compile_data.py ----
    dil_exp,      \* the experiment directories found by glob, in order
    c_pc,         \* position in the script
    c_i,          \* index of the next element of the loop at c_pc
    fluct_dfs,    \* the list fluct_dfs
    fc_dfs,       \* the list fc_dfs
    all_fluct,    \* _fluct_df: the experiments whose rows it holds
    written,      \* the files written so far in this run
    on_disk,      \* the compiled files present in ../data
    stdout,       \* what the script printed
    c_exc,        \* the exception that ended the script, with its line
    \* ---- log_posterior (code/analysis/cal_factor_EDA.py) ----
    alpha,        \* the argument `alpha`, a fraction <<p, q>>
    I1,           \* the argument `I1`, a 1-D array
    I2,           \* the argument `I2`, a 1-D array
    negative,     \* the argument `negative`
    lp_pc,        \* position in log_posterior
    locals,       \* the local variables assigned so far, by name
    lp_ret,       \* <<logp>> once returned (<<>> until the return)
    lp_exc        \* the exception raised (NoExc when none)

hpd_vars == <<trace, mass_frac, hpd_pc, d, n, n_samples, int_width, min_int,
              hpd_ret, hpd_exc>>

model_vars == <<obj, mwc_kwargs, rep_args, mwc, rep, init_exc, pact_ret, leak_ret,
                fc_args, fc_ret>>

compile_vars == <<dil_exp, c_pc, c_i, fluct_dfs, fc_dfs, all_fluct, written, on_disk,
                  stdout, c_exc>>

posterior_vars == <<alpha, I1, I2, negative, lp_pc, locals, lp_ret, lp_exc>>

vars == <<hpd_vars, model_vars, compile_vars, posterior_vars>>

-----------------------------------------------------------------------------
(* Bounds of the model. *)

\* longest trace handed to compute_hpd
MaxTraceLen == 4

\* samples are drawn from 0 .. MaxSample
MaxSample == 2

\* longest array handed to MWC, SimpleRepression and fold_change
MaxArrayLen == 2

\* R is drawn from -1 .. MaxR
MaxR == 2

\* most experiment directories compile_data.py finds
MaxExperiments == 2

\* the longest arrays I1, I2 given to log_posterior
MaxPairs == 2

\* the largest intensity in I1, I2
MaxIntensity == 1

-----------------------------------------------------------------------------
(* compute_hpd, mwc/stats.py *)

\* the values mass_frac is drawn from, 0 < p/q <= 1; all are exact in
\* binary floating point except the default 19/20, whose products with
\* n <= MaxTraceLen + 1 are not within rounding distance of an integer
MassFracs == {<<1, 4>>, <<1, 2>>, <<3, 4>>, <<19, 20>>, <<1, 1>>}

Traces == UNION {[1..len -> 0..MaxSample] : len \in 0..MaxTraceLen}

\* insertion of x into an ascending sequence
RECURSIVE InsertSorted(_, _)
InsertSorted(x, s) ==
    IF s = <<>> THEN <<x>>
    ELSE IF x <= Head(s) THEN <<x>> \o s
    ELSE <<Head(s)>> \o InsertSorted(x, Tail(s))

\* np.sort(np.copy(trace)): the ascending sort of a copy
RECURSIVE np_sort(_)
np_sort(s) ==
    IF s = <<>> THEN <<>> ELSE InsertSorted(Head(s), np_sort(Tail(s)))

\* np.floor(mass_frac * n).astype(int)
FloorMass(mf, len) == (mf[1] * len) \div mf[2]

\* the Python slice s[a:b] for 0-based a, b (negative indices count from the end)
PySlice(s, a, b) ==
    LET len == Len(s)
        lo  == IF a < 0 THEN (IF len + a < 0 THEN 0 ELSE len + a)
               ELSE (IF a > len THEN len ELSE a)
        hi  == IF b < 0 THEN (IF len + b < 0 THEN 0 ELSE len + b)
               ELSE (IF b > len THEN len ELSE b)
    IN  IF hi <= lo THEN <<>> ELSE SubSeq(s, lo + 1, hi)

\* a - b for two arrays of one shape
ArraySub(a, b) == [i \in 1..Len(a) |-> a[i] - b[i]]

\* np.argmin as it would be if it returned the last occurrence of the minimum
np_argmin_last(w) ==
    (CHOOSE i \in 1..Len(w) :
        /\ \A j \in 1..Len(w) : w[i] <= w[j]
        /\ \A j \in (i + 1)..Len(w) : w[j] > w[i]) - 1

\* np.argmin: the 0-based index of the first occurrence of the minimum
np_argmin(w) ==
    (CHOOSE i \in 1..Len(w) :
        /\ \A j \in 1..Len(w) : w[i] <= w[j]
        /\ \A j \in 1..(i - 1) : w[j] > w[i]) - 1


\* lines 180-186: d, n, n_samples
HpdSort ==
    /\ hpd_pc = "sort"
    /\ d' = np_sort(trace)
    /\ n' = Len(trace)
    /\ n_samples' = FloorMass(mass_frac, Len(trace))
    /\ hpd_pc' = "widths"
    /\ UNCHANGED <<trace, mass_frac, int_width, min_int, hpd_ret, hpd_exc>>
    /\ UNCHANGED <<model_vars, compile_vars, posterior_vars>>

\* line 189: int_width = d[n_samples:] - d[:n - n_samples]
HpdWidths ==
    /\ hpd_pc = "widths"
    /\ LET hi == PySlice(d, n_samples, Len(d))
           lo == PySlice(d, 0, n - n_samples)
       IN  IF Len(hi) = Len(lo)
           THEN /\ int_width' = ArraySub(hi, lo)
                /\ hpd_pc' = "argmin"
                /\ hpd_exc' = hpd_exc
           ELSE \* operands could not be broadcast together
                /\ int_width' = int_width
                /\ hpd_pc' = "raised"
                /\ hpd_exc' = "ValueError"
    /\ UNCHANGED <<trace, mass_frac, d, n, n_samples, min_int, hpd_ret>>
    /\ UNCHANGED <<model_vars, compile_vars, posterior_vars>>

\* line 192: min_int = np.argmin(int_width); an empty array raises ValueError
HpdArgmin ==
    /\ hpd_pc = "argmin"
    /\ IF int_width = <<>>
       THEN /\ hpd_pc' = "raised"
            /\ hpd_exc' = "ValueError"
            /\ min_int' = min_int
       ELSE /\ hpd_pc' = "return"
            /\ hpd_exc' = hpd_exc
            /\ min_int' = np_argmin(int_width)
    /\ UNCHANGED <<trace, mass_frac, d, n, n_samples, int_width, hpd_ret>>
    /\ UNCHANGED <<model_vars, compile_vars, posterior_vars>>

\* line 195: return np.array([d[min_int], d[min_int + n_samples]])
HpdReturn ==
    /\ hpd_pc = "return"
    /\ IF min_int + n_samples + 1 \in 1..Len(d)
       THEN /\ hpd_ret' = <<d[min_int + 1], d[min_int + n_samples + 1]>>
            /\ hpd_pc' = "returned"
            /\ hpd_exc' = hpd_exc
       ELSE /\ hpd_ret' = hpd_ret
            /\ hpd_pc' = "raised"
            /\ hpd_exc' = "IndexError"
    /\ UNCHANGED <<trace, mass_frac, d, n, n_samples, int_width, min_int>>
    /\ UNCHANGED <<model_vars, compile_vars, posterior_vars>>

HpdNext == HpdSort \/ HpdWidths \/ HpdArgmin \/ HpdReturn

-----------------------------------------------------------------------------
(* Numbers of mwc/model.py.  A number is a pair <<a, b>>: the rational a/b *)
(* in lowest terms when b > 0, and the IEEE-754 specials +inf = <<1, 0>>,  *)
(* -inf = <<-1, 0>> and nan = <<0, 0>>.  Finite arithmetic is exact; what  *)
(* is kept of floating point is the specials, and the overflow and the     *)
(* underflow of exp.                                                       *)

Abs(a) == IF a < 0 THEN -a ELSE a

RECURSIVE GCD(_, _)
GCD(a, b) == IF b = 0 THEN a ELSE GCD(b, a % b)

\* a/b in lowest terms, b # 0
Frac(a, b) ==
    LET g == GCD(Abs(a), Abs(b))
        s == IF b < 0 THEN -1 ELSE 1
    IN  <<(s * a) \div g, (s * b) \div g>>

\* (a/b) * (c/e) in lowest terms, cancelling before multiplying; b, e # 0
FracMul(a, b, c, e) ==
    LET g1 == GCD(Abs(a), Abs(e))
        g2 == GCD(Abs(c), Abs(b))
    IN  IF a = 0 \/ c = 0 THEN <<0, 1>>
        ELSE Frac((a \div g1) * (c \div g2), (b \div g2) * (e \div g1))

Whole(k) == <<k, 1>>
PosInf == <<1, 0>>
NegInf == <<-1, 0>>
NaN == <<0, 0>>

IsNaN(x) == x = NaN
IsInf(x) == x[2] = 0 /\ x[1] # 0
IsFinite(x) == x[2] # 0
Sgn(x) == IF x[1] > 0 THEN 1 ELSE IF x[1] < 0 THEN -1 ELSE 0

\* x + y
NumAdd(x, y) ==
    IF IsNaN(x) \/ IsNaN(y) THEN NaN
    ELSE IF IsInf(x) THEN (IF IsInf(y) /\ y # x THEN NaN ELSE x)
    ELSE IF IsInf(y) THEN y
    ELSE LET g == GCD(x[2], y[2])
         IN  Frac(x[1] * (y[2] \div g) + y[1] * (x[2] \div g), (x[2] \div g) * y[2])

\* -x
NumNeg(x) == <<-x[1], x[2]>>

\* x * y
NumMul(x, y) ==
    IF IsNaN(x) \/ IsNaN(y) THEN NaN
    ELSE IF IsInf(x) \/ IsInf(y)
         THEN (IF Sgn(x) * Sgn(y) = 0 THEN NaN
               ELSE IF Sgn(x) * Sgn(y) > 0 THEN PosInf ELSE NegInf)
    ELSE FracMul(x[1], x[2], y[1], y[2])

\* x / y in floating point: a zero divisor gives inf or nan (with a warning)
NumDiv(x, y) ==
    IF IsNaN(x) \/ IsNaN(y) THEN NaN
    ELSE IF IsInf(y) THEN (IF IsInf(x) THEN NaN ELSE Whole(0))
    ELSE IF y[1] = 0
         THEN (IF x[1] = 0 THEN NaN ELSE IF x[1] > 0 THEN PosInf ELSE NegInf)
    ELSE IF IsInf(x) THEN (IF Sgn(x) * Sgn(y) > 0 THEN PosInf ELSE NegInf)
    ELSE FracMul(x[1], x[2], y[2], y[1])

\* x ** k for an integer k
RECURSIVE IntPow(_, _)
IntPow(x, k) ==
    IF k = 0 THEN Whole(1)
    ELSE IF k < 0 THEN NumDiv(Whole(1), IntPow(x, -k))
    ELSE NumMul(x, IntPow(x, k - 1))

\* x ** y; the exponents of the model are integers
NumPow(x, y) ==
    CASE y[2] = 1 -> IntPow(x, y[1])

\* x < y (False when either is nan)
NumLt(x, y) ==
    IF IsNaN(x) \/ IsNaN(y) THEN FALSE
    ELSE IF IsInf(x) \/ IsInf(y)
         THEN (x = NegInf /\ y # NegInf) \/ (y = PosInf /\ x # PosInf)
    ELSE x[1] * y[2] < y[1] * x[2]

\* x == y (False when either is nan)
NumEq(x, y) == ~IsNaN(x) /\ ~IsNaN(y) /\ x = y

\* np.exp on float64: exp(x) is 0.0 for x <= -746 (underflow) and inf for
\* x >= 710 (overflow); in between the model knows exp at -2 .. 2, rounded
\* to a short fraction
NumExp(x) ==
    IF IsNaN(x) THEN NaN
    ELSE IF x = PosInf THEN PosInf
    ELSE IF x = NegInf THEN Whole(0)
    ELSE CASE x[2] = 1 /\ x[1] <= -746 -> Whole(0)
           [] x[2] = 1 /\ x[1] >= 710 -> PosInf
           [] x = Whole(-2) -> <<5, 37>>
           [] x = Whole(-1) -> <<7, 19>>
           [] x = Whole(0) -> Whole(1)
           [] x = Whole(1) -> <<19, 7>>
           [] x = Whole(2) -> <<37, 5>>

-----------------------------------------------------------------------------
(* Python values of mwc/model.py: None, a Python number ("py"), a numpy   *)
(* scalar ("np", what np.exp and arithmetic with numpy operands return), a *)
(* 1-D numpy array ("arr"), a class object ("type"), a raised exception    *)
(* ("exc") and a name not yet bound ("unset").                             *)

NoneVal == [t |-> "None", x |-> <<>>, e |-> "", m |-> ""]
Unset == [t |-> "unset", x |-> <<>>, e |-> "", m |-> ""]
NoExc == [t |-> "noexc", x |-> <<>>, e |-> "", m |-> ""]
PyNum(a) == [t |-> "py", x |-> <<a>>, e |-> "", m |-> ""]
NpNum(a) == [t |-> "np", x |-> <<a>>, e |-> "", m |-> ""]
NdArray(s) == [t |-> "arr", x |-> s, e |-> "", m |-> ""]
ClassObj(name) == [t |-> "type", x |-> <<>>, e |-> "", m |-> name]
Raise(type, msg) == [t |-> "exc", x |-> <<>>, e |-> type, m |-> msg]

IsExc(v) == v.t = "exc"
IsNumeric(v) == v.t \in {"py", "np", "arr"}

\* type(v)
PyType(v) ==
    CASE v.t = "None" -> ClassObj("NoneType")
      [] v.t = "py" -> ClassObj("float")
      [] v.t = "np" -> ClassObj("numpy.float64")
      [] v.t = "arr" -> ClassObj("numpy.ndarray")

\* `a is None`
IsNone(a) == a.t = "None"

\* bool(v) of a class object or a number
Truthy(v) ==
    CASE v.t = "type" -> TRUE
      [] v.t = "None" -> FALSE
      [] v.t \in {"py", "np"} -> ~NumEq(v.x[1], Whole(0))

\* `type(val) is float or int`, which Python reads as
\* `(type(val) is float) or int`: the class int is truthy
TypeIsFloatOrInt(val) == (PyType(val) = ClassObj("float")) \/ Truthy(ClassObj("int"))

\* the arithmetic of one binary operator on two numbers; a comparison
\* gives 1 (True) or 0 (False)
NumOp(op, x, y) ==
    CASE op = "+" -> NumAdd(x, y)
      [] op = "*" -> NumMul(x, y)
      [] op = "/" -> NumDiv(x, y)
      [] op = "**" -> NumPow(x, y)
      [] op = "<" -> IF NumLt(x, y) THEN Whole(1) ELSE Whole(0)

\* a binary operator applied by Python (two Python numbers) or by numpy
\* (elementwise, with broadcasting of 1-D shapes)
Elementwise(op, a, b) ==
    IF IsExc(a) THEN a
    ELSE IF IsExc(b) THEN b
    ELSE IF IsNone(a) \/ IsNone(b)
         THEN Raise("TypeError", "unsupported operand type(s)")
    ELSE IF a.t = "py" /\ b.t = "py" THEN PyNum(NumOp(op, a.x[1], b.x[1]))
    ELSE LET la == Len(a.x)
             lb == Len(b.x)
             len == IF la > lb THEN la ELSE lb
             r == [i \in 1..len |-> NumOp(op, a.x[IF la = 1 THEN 1 ELSE i],
                                               b.x[IF lb = 1 THEN 1 ELSE i])]
         IN  IF la # lb /\ la # 1 /\ lb # 1
             THEN Raise("ValueError", "operands could not be broadcast together")
             ELSE IF a.t = "arr" \/ b.t = "arr" THEN NdArray(r) ELSE NpNum(r[1])

Add(a, b) == Elementwise("+", a, b)
Mul(a, b) == Elementwise("*", a, b)

\* a / b: Python raises on a zero divisor, numpy returns inf or nan
TrueDiv(a, b) ==
    IF a.t = "py" /\ b.t = "py" /\ NumEq(b.x[1], Whole(0))
    THEN Raise("ZeroDivisionError", "division by zero")
    ELSE Elementwise("/", a, b)

\* a ** b: Python raises on 0 ** negative, numpy returns inf
Pow(a, b) ==
    IF a.t = "py" /\ b.t = "py" /\ NumEq(a.x[1], Whole(0)) /\ NumLt(b.x[1], Whole(0))
    THEN Raise("ZeroDivisionError", "0.0 cannot be raised to a negative power")
    ELSE Elementwise("**", a, b)

\* -a
Neg(a) ==
    IF IsExc(a) THEN a
    ELSE IF IsNone(a) THEN Raise("TypeError", "bad operand type for unary -")
    ELSE [a EXCEPT !.x = [i \in 1..Len(a.x) |-> NumNeg(a.x[i])]]

\* np.exp(a): a numpy scalar for a scalar, an array for an array
np_exp(a) ==
    IF IsExc(a) THEN a
    ELSE IF IsNone(a) THEN Raise("TypeError", "loop of ufunc does not support NoneType")
    ELSE IF a.t = "arr" THEN NdArray([i \in 1..Len(a.x) |-> NumExp(a.x[i])])
    ELSE NpNum(NumExp(a.x[1]))

BoolVal(b) == [t |-> "bool", x |-> <<>>, e |-> "", m |-> IF b THEN "True" ELSE "False"]

\* np.array([val]): an object array holding None for None; for a number or
\* an array, an array of the same elements (one dimension more)
np_array1(val) ==
    IF IsNone(val) THEN [t |-> "objarr", x |-> <<>>, e |-> "", m |-> ""]
    ELSE NdArray(val.x)

\* (arr == 0).any(); None == 0 is False
AnyEqZero(arr) ==
    IF arr.t = "objarr" THEN BoolVal(FALSE)
    ELSE BoolVal(\E i \in 1..Len(arr.x) : NumEq(arr.x[i], Whole(0)))

\* the check as it would be with `<=` for `<`
AnyLeZero(arr) ==
    IF arr.t = "objarr"
    THEN Raise("TypeError", "'<=' not supported between instances of 'NoneType' and 'int'")
    ELSE BoolVal(\E i \in 1..Len(arr.x) : ~NumLt(Whole(0), arr.x[i]))

\* (arr < 0).any(); None < 0 raises TypeError
AnyLtZero(arr) ==
    IF arr.t = "objarr"
    THEN Raise("TypeError", "'<' not supported between instances of 'NoneType' and 'int'")
    ELSE BoolVal(\E i \in 1..Len(arr.x) : NumLt(arr.x[i], Whole(0)))

-----------------------------------------------------------------------------
(* class MWC, mwc/model.py *)

UnsetSelf == [c |-> Unset, ep_ai |-> Unset, n |-> Unset, ka |-> Unset, ki |-> Unset]

\* lines 41-48: the first keyword whose `type(kwargs[k]) is None`
RECURSIVE EnsureProvided(_, _, _)
EnsureProvided(kwargs, keys, i) ==
    IF i > Len(keys) THEN NoExc
    ELSE IF IsNone(PyType(kwargs[keys[i]]))
         THEN Raise("RuntimeError", keys[i] \o " is NoneType and must be defined.")
    ELSE EnsureProvided(kwargs, keys, i + 1)

\* lines 73-78 (and 155-160): the loop over the keywords that must not be
\* negative, in the dict's order
RECURSIVE EnsurePositive(_, _, _)
EnsurePositive(kwargs, keys, i) ==
    IF i > Len(keys) THEN NoExc
    ELSE LET val == kwargs[keys[i]]
             arr == IF TypeIsFloatOrInt(val) THEN np_array1(val) ELSE val
             neg == AnyLtZero(arr)
         IN  IF IsExc(neg) THEN neg
             ELSE IF neg = BoolVal(TRUE)
                  THEN Raise("RuntimeError", keys[i] \o " must be positive.")
             ELSE EnsurePositive(kwargs, keys, i + 1)

\* lines 61-68: the zero check, on the arguments ka and ki
EnsureNonZero(ka, ki) ==
    LET _ka == IF TypeIsFloatOrInt(ka) THEN np_array1(ka) ELSE Unset
        _ki == IF TypeIsFloatOrInt(ki) THEN np_array1(ki) ELSE Unset
    IN  IF _ka = Unset \/ _ki = Unset
        THEN Raise("UnboundLocalError", "local variable referenced before assignment")
        ELSE IF AnyEqZero(_ka) = BoolVal(TRUE) \/ AnyEqZero(_ki) = BoolVal(TRUE)
             THEN Raise("ValueError", "ka and/or ki cannot be zero.")
        ELSE NoExc

\* MWC.__init__(effector_conc, ka, ki, ep_ai, n_sites, log_transform): the
\* attributes assigned to self when it ends, and the exception it raised
MWC_init(a) ==
    LET provided == EnsureProvided(a, <<"effector_conc", "ka", "ki", "ep_ai", "n_sites">>, 1)
        self0 == [UnsetSelf EXCEPT !.c = a.effector_conc, !.ep_ai = a.ep_ai,
                                   !.n = a.n_sites]
        ka == IF a.log_transform THEN np_exp(a.ka) ELSE a.ka
        ki == IF a.log_transform THEN np_exp(a.ki) ELSE a.ki
        self == [self0 EXCEPT !.ka = ka, !.ki = ki]
        zero == EnsureNonZero(a.ka, a.ki)
    IN  IF provided # NoExc THEN [self |-> UnsetSelf, exc |-> provided]
        ELSE IF IsExc(ka) THEN [self |-> self0, exc |-> ka]
        ELSE IF IsExc(ki) THEN [self |-> [self0 EXCEPT !.ka = ka], exc |-> ki]
        ELSE IF zero # NoExc THEN [self |-> self, exc |-> zero]
        ELSE [self |-> self,
              exc |-> EnsurePositive(
                          [effector_conc |-> self.c, ka |-> self.ka,
                           ki |-> self.ki, n_sites |-> self.n],
                          <<"effector_conc", "ka", "ki", "n_sites">>, 1)]

\* MWC.pact(self)
MWC_pact(self) ==
    LET numer == Pow(Add(PyNum(Whole(1)), TrueDiv(self.c, self.ka)), self.n)
        denom == Add(numer,
                     Mul(np_exp(Neg(self.ep_ai)),
                         Pow(Add(PyNum(Whole(1)), TrueDiv(self.c, self.ki)), self.n)))
    IN  TrueDiv(numer, denom)

\* MWC.leakiness(self)
MWC_leakiness(self) ==
    Pow(Add(PyNum(Whole(1)), np_exp(Neg(self.ep_ai))), PyNum(Whole(-1)))

-----------------------------------------------------------------------------
(* class SimpleRepression, mwc/model.py *)

\* **kwargs of SimpleRepression.__init__ when no keyword is given
NoKwargs == [effector_conc |-> Unset, ka |-> Unset, ki |-> Unset, ep_ai |-> Unset,
             n_sites |-> Unset, log_transform |-> FALSE]

UnsetRep == [R |-> Unset, ep_r |-> Unset, n_ns |-> Unset, allo |-> Unset, mwc |-> UnsetSelf]

\* SimpleRepression.__init__(R, ep_r, n_ns, **kwargs)
SimpleRepression_init(a, kwargs) ==
    LET self0 == [UnsetRep EXCEPT !.R = a.R, !.ep_r = a.ep_r, !.n_ns = a.n_ns]
        positive == EnsurePositive([R |-> a.R, n_ns |-> a.n_ns], <<"R", "n_ns">>, 1)
        m == MWC_init(kwargs)
    IN  IF positive # NoExc THEN [self |-> self0, exc |-> positive]
        ELSE IF kwargs # NoKwargs
             THEN IF m.exc # NoExc
                  THEN [self |-> [self0 EXCEPT !.allo = BoolVal(TRUE)], exc |-> m.exc]
                  ELSE [self |-> [self0 EXCEPT !.allo = BoolVal(TRUE), !.mwc = m.self],
                        exc |-> NoExc]
        ELSE [self |-> [self0 EXCEPT !.allo = BoolVal(FALSE)], exc |-> NoExc]

\* bool(v) where Python needs a truth value: an array of more than one
\* element has none
TruthOf(v) ==
    IF IsExc(v) THEN v
    ELSE IF v.t = "arr" /\ Len(v.x) > 1
         THEN Raise("ValueError", "The truth value of an array with more than one element is ambiguous.")
    ELSE BoolVal(v.x[1] # Whole(0))

\* a < b and a > b, elementwise, as 0/1
Less(a, b) ==
    IF IsNone(a) \/ IsNone(b)
    THEN Raise("TypeError", "'<' not supported between instances of 'NoneType' and 'int'")
    ELSE Elementwise("<", a, b)

\* lines 200-201: (pact < 0) or (pact > 1)
PactOutOfRange(pact) ==
    LET below == TruthOf(Less(pact, PyNum(Whole(0))))
    IN  IF IsExc(below) \/ below = BoolVal(TRUE) THEN below
        ELSE TruthOf(Less(PyNum(Whole(1)), pact))

\* fold_change as it would be if it used the caller's pact for an allosteric
\* repressor too
fold_change_callers_pact(self, wpa, pact) ==
    LET range == PactOutOfRange(pact)
        repression ==
            Add(PyNum(Whole(1)),
                Mul(TrueDiv(Mul(pact, self.R), self.n_ns), np_exp(Neg(self.ep_r))))
    IN  IF wpa # TRUE THEN Raise("RuntimeError", "not yet implemented")
        ELSE IF IsExc(range) THEN range
        ELSE IF range = BoolVal(TRUE)
             THEN Raise("TypeError", "pact must be on the range [0, 1].")
        ELSE Pow(repression, PyNum(Whole(-1)))

\* SimpleRepression.fold_change(self, wpa, pact=pact)
SimpleRepression_fold_change(self, wpa, pact) ==
    LET range == PactOutOfRange(pact)
        p == IF self.allo = BoolVal(TRUE) THEN MWC_pact(self.mwc) ELSE pact
        repression ==
            Add(PyNum(Whole(1)),
                Mul(TrueDiv(Mul(p, self.R), self.n_ns), np_exp(Neg(self.ep_r))))
    IN  IF wpa # TRUE THEN Raise("RuntimeError", "not yet implemented")
        ELSE IF self.allo # BoolVal(TRUE) /\ IsExc(range) THEN range
        ELSE IF self.allo # BoolVal(TRUE) /\ range = BoolVal(TRUE)
             THEN Raise("TypeError", "pact must be on the range [0, 1].")
        ELSE Pow(repression, PyNum(Whole(-1)))

-----------------------------------------------------------------------------
(* The calls made on mwc/model.py: one object is constructed, then its    *)
(* methods are called.                                                     *)

PyInts(S) == {PyNum(Whole(k)) : k \in S}
Arrays(S) == {NdArray(s) : s \in UNION {[1..len -> S] : len \in 1..MaxArrayLen}}

ConcArgs == {NoneVal} \cup PyInts({-1, 0, 1})
KArgs == {NoneVal} \cup PyInts({-746, -1, 0, 1, 2, 710})
EpArgs == {NoneVal} \cup PyInts({-710, -1, 0, 1, 746})
SitesArgs == {NoneVal} \cup PyInts({-1, 0, 1, 2})
ArrayArgs == Arrays({Whole(-1), Whole(0), Whole(1)})

\* MWC(...) with scalar arguments, and with one array argument
MWCArgs ==
    [effector_conc : ConcArgs, ka : KArgs, ki : KArgs, ep_ai : EpArgs,
     n_sites : SitesArgs, log_transform : BOOLEAN]
    \cup [effector_conc : ArrayArgs, ka : PyInts({0, 1}), ki : PyInts({1}),
          ep_ai : PyInts({0}), n_sites : PyInts({-1, 2}), log_transform : BOOLEAN]
    \cup [effector_conc : PyInts({-1, 0, 1}), ka : ArrayArgs, ki : PyInts({0, 1}),
          ep_ai : PyInts({0}), n_sites : PyInts({2}), log_transform : BOOLEAN]
    \cup [effector_conc : PyInts({-1, 0, 1}), ka : PyInts({1}), ki : ArrayArgs,
          ep_ai : PyInts({1}), n_sites : PyInts({2}), log_transform : BOOLEAN]
    \cup [effector_conc : PyInts({0, 1}), ka : PyInts({1}), ki : PyInts({-1, 2}),
          ep_ai : PyInts({0}), n_sites : ArrayArgs, log_transform : {FALSE}]

\* the allosteric **kwargs given to SimpleRepression
AlloKwargs ==
    [effector_conc : {NoneVal} \cup PyInts({0, 1}), ka : PyInts({-746, 0, 2}),
     ki : PyInts({1}), ep_ai : {NoneVal} \cup PyInts({1}), n_sites : PyInts({2}),
     log_transform : BOOLEAN]

RepArgs ==
    [R : PyInts(-1..MaxR) \cup Arrays({Whole(-1), Whole(1)}),
     ep_r : PyInts({-710, 0, 1, 746}),
     n_ns : PyInts({-1, 0, 1, 2})]

PactArgs ==
    {NoneVal} \cup PyInts({-1, 0, 1, 2}) \cup {PyNum(<<1, 2>>)}
    \cup Arrays({Whole(0), Whole(2)})

NoRepArgs == [R |-> Unset, ep_r |-> Unset, n_ns |-> Unset]
NoCall == [wpa |-> TRUE, pact |-> Unset]


\* MWC(**a)
NewMWC ==
    /\ obj = "none"
    /\ \E a \in MWCArgs :
        /\ obj' = "MWC"
        /\ mwc_kwargs' = a
        /\ mwc' = MWC_init(a).self
        /\ init_exc' = MWC_init(a).exc
    /\ UNCHANGED <<rep_args, rep, pact_ret, leak_ret, fc_args, fc_ret>>
    /\ UNCHANGED <<hpd_vars, compile_vars, posterior_vars>>

\* SimpleRepression(R, ep_r, n_ns, **kwargs)
NewSimpleRepression ==
    /\ obj = "none"
    /\ \E a \in RepArgs : \E kwargs \in {NoKwargs} \cup AlloKwargs :
        /\ obj' = "SimpleRepression"
        /\ rep_args' = a
        /\ mwc_kwargs' = kwargs
        /\ rep' = SimpleRepression_init(a, kwargs).self
        /\ init_exc' = SimpleRepression_init(a, kwargs).exc
    /\ UNCHANGED <<mwc, pact_ret, leak_ret, fc_args, fc_ret>>
    /\ UNCHANGED <<hpd_vars, compile_vars, posterior_vars>>

\* mwc.pact() on a constructed MWC
CallPact ==
    /\ obj = "MWC"
    /\ init_exc = NoExc
    /\ pact_ret = Unset
    /\ pact_ret' = MWC_pact(mwc)
    /\ UNCHANGED <<obj, mwc_kwargs, rep_args, mwc, rep, init_exc, leak_ret, fc_args, fc_ret>>
    /\ UNCHANGED <<hpd_vars, compile_vars, posterior_vars>>

\* mwc.leakiness() on a constructed MWC
CallLeakiness ==
    /\ obj = "MWC"
    /\ init_exc = NoExc
    /\ leak_ret = Unset
    /\ leak_ret' = MWC_leakiness(mwc)
    /\ UNCHANGED <<obj, mwc_kwargs, rep_args, mwc, rep, init_exc, pact_ret, fc_args, fc_ret>>
    /\ UNCHANGED <<hpd_vars, compile_vars, posterior_vars>>

\* rep.fold_change(wpa=wpa, pact=pact) on a constructed SimpleRepression
CallFoldChange ==
    /\ obj = "SimpleRepression"
    /\ init_exc = NoExc
    /\ fc_ret = Unset
    /\ \E wpa \in BOOLEAN : \E pact \in PactArgs :
        /\ fc_args' = [wpa |-> wpa, pact |-> pact]
        /\ fc_ret' = SimpleRepression_fold_change(rep, wpa, pact)
    /\ UNCHANGED <<obj, mwc_kwargs, rep_args, mwc, rep, init_exc, pact_ret, leak_ret>>
    /\ UNCHANGED <<hpd_vars, compile_vars, posterior_vars>>

ModelNext == NewMWC \/ NewSimpleRepression \/ CallPact \/ CallLeakiness \/ CallFoldChange

-----------------------------------------------------------------------------
(* code/compile_data.py.  An experiment directory is described by what the *)
(* script reads of it: the status of its README front matter ("missing"    *)
(* when it has none), which of its output CSVs exist, whether the          *)
(* fluctuation CSV has rows, and whether the CSVs have the columns the     *)
(* group loop uses.                                                        *)

Statuses == {"accepted", "Accepted", "rejected", "missing"}

Experiments ==
    [status : Statuses, fluct_csv : BOOLEAN, fc_csv : BOOLEAN, rows : BOOLEAN,
     columns : BOOLEAN]

CompiledFiles == {"compiled_fluctuations.csv", "compiled_fold_change.csv"}

NoError == [type |-> "", line |-> 0]
Error(type, line) == [type |-> type, line |-> line]

\* str.lower() on the status values
Lower(status) == IF status = "Accepted" THEN "accepted" ELSE status

\* pd.concat as it would be if it returned an empty frame for an empty list
ConcatNeverRaises(dfs) == FALSE

\* pd.concat(dfs) raises ValueError('No objects to concatenate') on an empty list
ConcatRaises(dfs) == dfs = <<>>

\* the experiments of a list of dataframes that contribute rows
WithRows(dfs) == SelectSeq(dfs, LAMBDA e : dil_exp[e].rows)

\* lines 18-22: the loop head, the front matter is scraped and its status read
ScanExperiment ==
    /\ c_pc = "scan"
    /\ c_i <= Len(dil_exp)
    /\ IF dil_exp[c_i].status = "missing"
       THEN /\ c_pc' = "error"
            /\ c_exc' = Error("KeyError", 22)
            /\ UNCHANGED <<c_i, fluct_dfs, fc_dfs>>
       ELSE IF Lower(dil_exp[c_i].status) # "accepted"
       THEN /\ c_i' = c_i + 1
            /\ UNCHANGED <<c_pc, c_exc, fluct_dfs, fc_dfs>>
       ELSE IF ~dil_exp[c_i].fluct_csv
       THEN /\ c_pc' = "error"
            /\ c_exc' = Error("IndexError", 23)
            /\ UNCHANGED <<c_i, fluct_dfs, fc_dfs>>
       ELSE IF ~dil_exp[c_i].fc_csv
       THEN /\ c_pc' = "error"
            /\ c_exc' = Error("IndexError", 24)
            /\ UNCHANGED <<c_i, fluct_dfs, fc_dfs>>
       ELSE /\ fluct_dfs' = Append(fluct_dfs, c_i)
            /\ fc_dfs' = Append(fc_dfs, c_i)
            /\ c_i' = c_i + 1
            /\ UNCHANGED <<c_pc, c_exc>>
    /\ UNCHANGED <<dil_exp, all_fluct, written, on_disk, stdout>>
    /\ UNCHANGED <<hpd_vars, model_vars, posterior_vars>>

\* lines 27-32: the two concatenations, then the lists are emptied
ConcatAccepted ==
    /\ c_pc = "scan"
    /\ c_i > Len(dil_exp)
    /\ IF ConcatRaises(fluct_dfs)
       THEN /\ c_pc' = "error"
            /\ c_exc' = Error("ValueError", 27)
            /\ UNCHANGED <<c_i, fluct_dfs, fc_dfs, all_fluct>>
       ELSE IF ConcatRaises(fc_dfs)
       THEN /\ c_pc' = "error"
            /\ c_exc' = Error("ValueError", 28)
            /\ UNCHANGED <<c_i, fluct_dfs, fc_dfs, all_fluct>>
       ELSE /\ all_fluct' = WithRows(fluct_dfs)
            /\ fluct_dfs' = <<>>
            /\ fc_dfs' = <<>>
            /\ c_pc' = "groups"
            /\ c_i' = 1
            /\ c_exc' = c_exc
    /\ UNCHANGED <<dil_exp, written, on_disk, stdout>>
    /\ UNCHANGED <<hpd_vars, model_vars, posterior_vars>>

\* lines 33-57: one pass of the group loop, one group per experiment with rows
ProcessGroup ==
    /\ c_pc = "groups"
    /\ c_i <= Len(all_fluct)
    /\ IF ~dil_exp[all_fluct[c_i]].columns
       THEN /\ c_pc' = "error"
            /\ c_exc' = Error("KeyError", 35)
            /\ UNCHANGED <<c_i, fluct_dfs, fc_dfs>>
       ELSE /\ fluct_dfs' = Append(fluct_dfs, all_fluct[c_i])
            /\ fc_dfs' = Append(fc_dfs, all_fluct[c_i])
            /\ c_i' = c_i + 1
            /\ UNCHANGED <<c_pc, c_exc>>
    /\ UNCHANGED <<dil_exp, all_fluct, written, on_disk, stdout>>
    /\ UNCHANGED <<hpd_vars, model_vars, posterior_vars>>

\* lines 59-60: the concatenations of the groups
ConcatGroups ==
    /\ c_pc = "groups"
    /\ c_i > Len(all_fluct)
    /\ IF ConcatRaises(fluct_dfs)
       THEN /\ c_pc' = "error"
            /\ c_exc' = Error("ValueError", 59)
       ELSE IF ConcatRaises(fc_dfs)
       THEN /\ c_pc' = "error"
            /\ c_exc' = Error("ValueError", 60)
       ELSE /\ c_pc' = "write_fluct"
            /\ c_exc' = c_exc
    /\ UNCHANGED <<dil_exp, c_i, fluct_dfs, fc_dfs, all_fluct, written, on_disk, stdout>>
    /\ UNCHANGED <<hpd_vars, model_vars, posterior_vars>>

\* line 61: fluct_df.to_csv('../data/compiled_fluctuations.csv'); the write
\* may fail
WriteFluctuations ==
    /\ c_pc = "write_fluct"
    /\ \/ /\ written' = written \cup {"compiled_fluctuations.csv"}
          /\ on_disk' = on_disk \cup {"compiled_fluctuations.csv"}
          /\ c_pc' = "write_fc"
          /\ c_exc' = c_exc
       \/ /\ c_pc' = "error"
          /\ c_exc' = Error("OSError", 61)
          /\ UNCHANGED <<written, on_disk>>
    /\ UNCHANGED <<dil_exp, c_i, fluct_dfs, fc_dfs, all_fluct, stdout>>
    /\ UNCHANGED <<hpd_vars, model_vars, posterior_vars>>

\* line 62: fc_df.to_csv('../data/compiled_fold_change.csv'); the write may fail
WriteFoldChange ==
    /\ c_pc = "write_fc"
    /\ \/ /\ written' = written \cup {"compiled_fold_change.csv"}
          /\ on_disk' = on_disk \cup {"compiled_fold_change.csv"}
          /\ c_pc' = "print"
          /\ c_exc' = c_exc
       \/ /\ c_pc' = "error"
          /\ c_exc' = Error("OSError", 62)
          /\ UNCHANGED <<written, on_disk>>
    /\ UNCHANGED <<dil_exp, c_i, fluct_dfs, fc_dfs, all_fluct, stdout>>
    /\ UNCHANGED <<hpd_vars, model_vars, posterior_vars>>

\* line 76: print('all data compiled')
PrintDone ==
    /\ c_pc = "print"
    /\ stdout' = Append(stdout, "all data compiled")
    /\ c_pc' = "done"
    /\ UNCHANGED <<dil_exp, c_i, fluct_dfs, fc_dfs, all_fluct, written, on_disk, c_exc>>
    /\ UNCHANGED <<hpd_vars, model_vars, posterior_vars>>

CompileNext ==
    \/ ScanExperiment
    \/ ConcatAccepted
    \/ ProcessGroup
    \/ ConcatGroups
    \/ WriteFluctuations
    \/ WriteFoldChange
    \/ PrintDone

-----------------------------------------------------------------------------
(* log_posterior (code/analysis/cal_factor_EDA.py).  For alpha > 0 and     *)
(* non-negative intensities every term of the log posterior is a rational  *)
(* combination of 1, ln(pi) and the logarithms of primes.  A value is the  *)
(* function from LogBasis to its coefficients: 1 stands for the rational   *)
(* part, 0 for ln(pi) and a prime p for ln(p).  The arithmetic on these    *)
(* values is exact: the rounding of float64 is not modelled.               *)

Primes == {2, 3, 5, 7, 11, 13}
LogBasis == {0, 1} \cup Primes

LogZero == [b \in LogBasis |-> Whole(0)]

\* u + v, c * v and u - v
LogAdd(u, v) == [b \in LogBasis |-> NumAdd(u[b], v[b])]
LogScale(c, v) == [b \in LogBasis |-> NumMul(c, v[b])]
LogSub(u, v) == LogAdd(u, LogScale(Whole(-1), v))

\* how often the prime p divides k >= 1, and k without its factors p
RECURSIVE Multiplicity(_, _)
Multiplicity(p, k) == IF k % p = 0 THEN 1 + Multiplicity(p, k \div p) ELSE 0

RECURSIVE Strip(_, _)
Strip(k, p) == IF k % p = 0 THEN Strip(k \div p, p) ELSE k

\* np.log(k) for a whole k >= 1 whose prime factors are all in Primes
LogOfWhole(k) ==
    CASE k >= 1 /\ Strip(Strip(Strip(Strip(Strip(Strip(k, 2), 3), 5), 7), 11), 13) = 1 ->
        [b \in LogBasis |-> IF b \in Primes THEN Whole(Multiplicity(b, k))
                            ELSE Whole(0)]

\* np.log(x) for a fraction x = <<a, b>> > 0
np_log(x) == LogSub(LogOfWhole(x[1]), LogOfWhole(x[2]))

\* ln(m!)
RECURSIVE LogFactorial(_)
LogFactorial(m) ==
    IF m <= 1 THEN LogZero ELSE LogAdd(LogOfWhole(m), LogFactorial(m - 1))

\* scipy.special.gammaln(x) for x >= 1/2 a whole or a half-whole number:
\* Gamma(m) = (m-1)! and Gamma(j + 1/2) = (2j)! sqrt(pi) / (4^j j!)
gammaln(x) ==
    CASE x[2] = 1 /\ x[1] >= 1 -> LogFactorial(x[1] - 1)
      [] x[2] = 2 /\ x[1] >= 1 ->
            LET j == (x[1] - 1) \div 2
            IN  LogAdd(LogSub(LogFactorial(2 * j), LogFactorial(j)),
                       [LogZero EXCEPT ![0] = <<1, 2>>, ![2] = Whole(-2 * j)])

\* the scale of the half-normal prior on alpha
HalfnormScale == 500

\* scipy.stats.halfnorm(0, HalfnormScale).logpdf(x) for x > 0:
\* ln(sqrt(2/pi)) - (x/scale)^2 / 2 - ln(scale)
halfnorm_logpdf(x) ==
    LogSub([LogZero EXCEPT
                ![2] = <<1, 2>>,
                ![0] = <<-1, 2>>,
                ![1] = NumNeg(NumDiv(NumMul(x, x),
                                     Whole(2 * HalfnormScale * HalfnormScale)))],
           LogOfWhole(HalfnormScale))

\* (I < 0).any()
any_negative_first(I) == Len(I) > 0 /\ I[1] < 0
any_negative(I) == \E i \in 1..Len(I) : I[i] < 0

\* I / alpha, elementwise
array_div(I, a) == [i \in 1..Len(I) |-> NumDiv(Whole(I[i]), a)]

\* a + b with numpy's broadcasting of 1-D arrays: equal lengths, or one of
\* the two of length 1; anything else raises ValueError
Broadcastable(a, b) == Len(a) = Len(b) \/ Len(a) = 1 \/ Len(b) = 1
array_add(a, b) ==
    [i \in 1..(IF Len(a) = 1 THEN Len(b) ELSE Len(a)) |->
        a[IF Len(a) = 1 THEN 1 ELSE i] + b[IF Len(b) = 1 THEN 1 ELSE i]]

\* ns.sum()
RECURSIVE array_sum(_)
array_sum(ns) ==
    IF ns = <<>> THEN Whole(0) ELSE NumAdd(ns[1], array_sum(Tail(ns)))

\* scipy.special.gammaln(ns + 1).sum()
RECURSIVE gammaln_sum(_)
gammaln_sum(ns) ==
    IF ns = <<>> THEN LogZero
    ELSE LogAdd(gammaln(NumAdd(ns[1], Whole(1))), gammaln_sum(Tail(ns)))

\* the terms of the log posterior
Prefactor(neg) == IF neg = TRUE THEN -1 ELSE 1
Binom(n1, n2, ntot) ==
    LogSub(LogSub(gammaln_sum(ntot), gammaln_sum(n1)), gammaln_sum(n2))
Prob(ntot) == LogScale(NumNeg(array_sum(ntot)), np_log(Whole(2)))
Cov(I, a) == LogScale(Whole(-Len(I)), np_log(a))
Logp(prefactor, prob, cov, binom, log_prior) ==
    LogScale(Whole(prefactor), LogAdd(LogAdd(LogAdd(prob, cov), binom), log_prior))

NegativeValues == Raise("ValueError", "Negative values in I1 or I2")
BroadcastError == Raise("ValueError", "operands could not be broadcast together")

\* log_posterior(a, i1, i2, neg) as a function of its arguments: what it
\* returns (<<logp>>, or <<>> when it raises) and what it raises
log_posterior(a, i1, i2, neg) ==
    IF any_negative(i1) \/ any_negative(i2)
    THEN [ret |-> <<>>, exc |-> NegativeValues]
    ELSE IF ~Broadcastable(i1, i2)
    THEN [ret |-> <<>>, exc |-> BroadcastError]
    ELSE LET n1 == array_div(i1, a)
             n2 == array_div(i2, a)
             ntot == array_div(array_add(i1, i2), a)
         IN  [ret |-> <<Logp(Prefactor(neg), Prob(ntot), Cov(i1, a),
                             Binom(n1, n2, ntot), halfnorm_logpdf(a))>>,
              exc |-> NoExc]

NoLocals == [name \in {} |-> 0]

\* lines 616-620: the prefactor
LpPrefactor ==
    /\ lp_pc = "prefactor"
    /\ locals' = locals @@ ("prefactor" :> Prefactor(negative))
    /\ lp_pc' = "check"
    /\ UNCHANGED <<alpha, I1, I2, negative, lp_ret, lp_exc>>
    /\ UNCHANGED <<hpd_vars, model_vars, compile_vars>>

\* lines 622-624: negative intensities are refused
LpCheck ==
    /\ lp_pc = "check"
    /\ IF any_negative(I1) \/ any_negative(I2)
       THEN lp_exc' = NegativeValues /\ lp_pc' = "raised"
       ELSE lp_exc' = lp_exc /\ lp_pc' = "copy_numbers"
    /\ UNCHANGED <<alpha, I1, I2, negative, locals, lp_ret>>
    /\ UNCHANGED <<hpd_vars, model_vars, compile_vars>>

\* lines 627-629: n1, n2 and ntot; I1 + I2 raises when the shapes differ
LpCopyNumbers ==
    /\ lp_pc = "copy_numbers"
    /\ IF Broadcastable(I1, I2)
       THEN /\ locals' = locals @@ ("n1" :> array_div(I1, alpha))
                                @@ ("n2" :> array_div(I2, alpha))
                                @@ ("ntot" :> array_div(array_add(I1, I2), alpha))
            /\ lp_pc' = "binom"
            /\ lp_exc' = lp_exc
       ELSE /\ locals' = locals @@ ("n1" :> array_div(I1, alpha))
                                @@ ("n2" :> array_div(I2, alpha))
            /\ lp_pc' = "raised"
            /\ lp_exc' = BroadcastError
    /\ UNCHANGED <<alpha, I1, I2, negative, lp_ret>>
    /\ UNCHANGED <<hpd_vars, model_vars, compile_vars>>

\* lines 631-633
LpBinom ==
    /\ lp_pc = "binom"
    /\ locals' = locals @@ ("binom" :> Binom(locals.n1, locals.n2, locals.ntot))
    /\ lp_pc' = "log_prior"
    /\ UNCHANGED <<alpha, I1, I2, negative, lp_ret, lp_exc>>
    /\ UNCHANGED <<hpd_vars, model_vars, compile_vars>>

\* line 636
LpLogPrior ==
    /\ lp_pc = "log_prior"
    /\ locals' = locals @@ ("log_prior" :> halfnorm_logpdf(alpha))
    /\ lp_pc' = "prob"
    /\ UNCHANGED <<alpha, I1, I2, negative, lp_ret, lp_exc>>
    /\ UNCHANGED <<hpd_vars, model_vars, compile_vars>>

\* line 639
LpProb ==
    /\ lp_pc = "prob"
    /\ locals' = locals @@ ("prob" :> Prob(locals.ntot))
    /\ lp_pc' = "cov"
    /\ UNCHANGED <<alpha, I1, I2, negative, lp_ret, lp_exc>>
    /\ UNCHANGED <<hpd_vars, model_vars, compile_vars>>

\* line 642
LpCov ==
    /\ lp_pc = "cov"
    /\ locals' = locals @@ ("cov" :> Cov(I1, alpha))
    /\ lp_pc' = "logp"
    /\ UNCHANGED <<alpha, I1, I2, negative, lp_ret, lp_exc>>
    /\ UNCHANGED <<hpd_vars, model_vars, compile_vars>>

\* lines 645-646
LpReturn ==
    /\ lp_pc = "logp"
    /\ locals' = locals @@ ("logp" :> Logp(locals.prefactor, locals.prob, locals.cov,
                                          locals.binom, locals.log_prior))
    /\ lp_ret' = <<locals'.logp>>
    /\ lp_pc' = "returned"
    /\ UNCHANGED <<alpha, I1, I2, negative, lp_exc>>
    /\ UNCHANGED <<hpd_vars, model_vars, compile_vars>>

PosteriorNext ==
    \/ LpPrefactor
    \/ LpCheck
    \/ LpCopyNumbers
    \/ LpBinom
    \/ LpLogPrior
    \/ LpProb
    \/ LpCov
    \/ LpReturn

\* the arguments: alpha > 0, intensities from -1 .. MaxIntensity
Alphas == {<<1, 2>>, <<1, 1>>, <<2, 1>>}
Intensities == UNION {[1..len -> -1..MaxIntensity] : len \in 0..MaxPairs}

-----------------------------------------------------------------------------
(* Specifications *)

\* compute_hpd(trace, mass_frac) is called; nothing is called on mwc/model.py
InitHpd ==
    /\ trace \in Traces
    /\ mass_frac \in MassFracs
    /\ hpd_pc = "sort"
    /\ d = <<>>
    /\ n = 0
    /\ n_samples = 0
    /\ int_width = <<>>
    /\ min_int = 0
    /\ hpd_ret = <<>>
    /\ hpd_exc = ""
    /\ obj = "none"
    /\ mwc_kwargs = NoKwargs
    /\ rep_args = NoRepArgs
    /\ mwc = UnsetSelf
    /\ rep = UnsetRep
    /\ init_exc = NoExc
    /\ pact_ret = Unset
    /\ leak_ret = Unset
    /\ fc_args = NoCall
    /\ fc_ret = Unset
    /\ dil_exp = <<>>
    /\ c_pc = "idle"
    /\ c_i = 1
    /\ fluct_dfs = <<>>
    /\ fc_dfs = <<>>
    /\ all_fluct = <<>>
    /\ written = {}
    /\ on_disk = {}
    /\ stdout = <<>>
    /\ c_exc = NoError
    /\ alpha = <<1, 1>>
    /\ I1 = <<>>
    /\ I2 = <<>>
    /\ negative = FALSE
    /\ lp_pc = "idle"
    /\ locals = NoLocals
    /\ lp_ret = <<>>
    /\ lp_exc = NoExc

SpecHpd == InitHpd /\ [][HpdNext]_vars

\* the calls on mwc/model.py; compute_hpd is not called
InitModel ==
    /\ trace = <<>>
    /\ mass_frac = <<1, 1>>
    /\ hpd_pc = "idle"
    /\ d = <<>>
    /\ n = 0
    /\ n_samples = 0
    /\ int_width = <<>>
    /\ min_int = 0
    /\ hpd_ret = <<>>
    /\ hpd_exc = ""
    /\ obj = "none"
    /\ mwc_kwargs = NoKwargs
    /\ rep_args = NoRepArgs
    /\ mwc = UnsetSelf
    /\ rep = UnsetRep
    /\ init_exc = NoExc
    /\ pact_ret = Unset
    /\ leak_ret = Unset
    /\ fc_args = NoCall
    /\ fc_ret = Unset
    /\ dil_exp = <<>>
    /\ c_pc = "idle"
    /\ c_i = 1
    /\ fluct_dfs = <<>>
    /\ fc_dfs = <<>>
    /\ all_fluct = <<>>
    /\ written = {}
    /\ on_disk = {}
    /\ stdout = <<>>
    /\ c_exc = NoError
    /\ alpha = <<1, 1>>
    /\ I1 = <<>>
    /\ I2 = <<>>
    /\ negative = FALSE
    /\ lp_pc = "idle"
    /\ locals = NoLocals
    /\ lp_ret = <<>>
    /\ lp_exc = NoExc

SpecModel == InitModel /\ [][ModelNext]_vars

\* one run of compile_data.py; ../data may hold the files of an earlier run
InitCompile ==
    /\ trace = <<>>
    /\ mass_frac = <<1, 1>>
    /\ hpd_pc = "idle"
    /\ d = <<>>
    /\ n = 0
    /\ n_samples = 0
    /\ int_width = <<>>
    /\ min_int = 0
    /\ hpd_ret = <<>>
    /\ hpd_exc = ""
    /\ obj = "none"
    /\ mwc_kwargs = NoKwargs
    /\ rep_args = NoRepArgs
    /\ mwc = UnsetSelf
    /\ rep = UnsetRep
    /\ init_exc = NoExc
    /\ pact_ret = Unset
    /\ leak_ret = Unset
    /\ fc_args = NoCall
    /\ fc_ret = Unset
    /\ dil_exp \in UNION {[1..len -> Experiments] : len \in 0..MaxExperiments}
    /\ c_pc = "scan"
    /\ c_i = 1
    /\ fluct_dfs = <<>>
    /\ fc_dfs = <<>>
    /\ all_fluct = <<>>
    /\ written = {}
    /\ on_disk \in {{}, CompiledFiles}
    /\ stdout = <<>>
    /\ c_exc = NoError
    /\ alpha = <<1, 1>>
    /\ I1 = <<>>
    /\ I2 = <<>>
    /\ negative = FALSE
    /\ lp_pc = "idle"
    /\ locals = NoLocals
    /\ lp_ret = <<>>
    /\ lp_exc = NoExc

SpecCompile == InitCompile /\ [][CompileNext]_vars

\* one call of log_posterior(alpha, I1, I2, negative)
InitPosterior ==
    /\ trace = <<>>
    /\ mass_frac = <<1, 1>>
    /\ hpd_pc = "idle"
    /\ d = <<>>
    /\ n = 0
    /\ n_samples = 0
    /\ int_width = <<>>
    /\ min_int = 0
    /\ hpd_ret = <<>>
    /\ hpd_exc = ""
    /\ obj = "none"
    /\ mwc_kwargs = NoKwargs
    /\ rep_args = NoRepArgs
    /\ mwc = UnsetSelf
    /\ rep = UnsetRep
    /\ init_exc = NoExc
    /\ pact_ret = Unset
    /\ leak_ret = Unset
    /\ fc_args = NoCall
    /\ fc_ret = Unset
    /\ dil_exp = <<>>
    /\ c_pc = "idle"
    /\ c_i = 1
    /\ fluct_dfs = <<>>
    /\ fc_dfs = <<>>
    /\ all_fluct = <<>>
    /\ written = {}
    /\ on_disk = {}
    /\ stdout = <<>>
    /\ c_exc = NoError
    /\ alpha \in Alphas
    /\ I1 \in Intensities
    /\ I2 \in Intensities
    /\ negative \in BOOLEAN
    /\ lp_pc = "prefactor"
    /\ locals = NoLocals
    /\ lp_ret = <<>>
    /\ lp_exc = NoExc

SpecPosterior == InitPosterior /\ [][PosteriorNext]_vars

-----------------------------------------------------------------------------
(* Properties of compute_hpd, checked under SpecHpd *)

HpdEnded == hpd_pc \in {"returned", "raised"}

\* floor(mass_frac * len(trace)), from the arguments
WindowSize == (mass_frac[1] * Len(trace)) \div mass_frac[2]

\* s is the ascending sort of t
IsSortOf(s, t) ==
    /\ Len(s) = Len(t)
    /\ \A i \in 1..(Len(s) - 1) : s[i] <= s[i + 1]
    /\ \A v \in {s[i] : i \in 1..Len(s)} \cup {t[i] : i \in 1..Len(t)} :
           Cardinality({i \in 1..Len(s) : s[i] = v})
               = Cardinality({i \in 1..Len(t) : t[i] = v})

\* C1: for every non-empty trace and every 0 < mass_frac <= 1 (1 included)
\* compute_hpd returns, without raising, [lo, hi] with lo <= hi, both
\* values of the trace.
C1_ReturnsInterval ==
    (trace # <<>> /\ HpdEnded) =>
        /\ hpd_pc = "returned"
        /\ Len(hpd_ret) = 2
        /\ hpd_ret[1] <= hpd_ret[2]
        /\ \A k \in 1..2 : \E i \in 1..Len(trace) : trace[i] = hpd_ret[k]

\* C2: with d the ascending sort of the trace, n = len(trace) and
\* k = floor(mass_frac * n), compute_hpd returns whenever 0..n-k-1 is not
\* empty, and what it returns is [d[i], d[i+k]] for the smallest i in
\* 0..n-k-1 that minimises d[i+k] - d[i]: no window is strictly narrower,
\* and no earlier window is as narrow.
C2_NarrowestWindow ==
    LET k == WindowSize
        len == Len(trace)
        width(j) == d[j + k + 1] - d[j + 1]
    IN  /\ (HpdEnded /\ k < len) => hpd_pc = "returned"
        /\ hpd_pc = "returned" =>
              /\ IsSortOf(d, trace)
              /\ min_int \in 0..(len - k - 1)
              /\ hpd_ret = <<d[min_int + 1], d[min_int + k + 1]>>
              /\ \A j \in 0..(len - k - 1) : width(j) >= width(min_int)
              /\ \A j \in 0..(min_int - 1) : width(j) > width(min_int)

\* C2's case: the narrowest window is not the first one, and a later window
\* is exactly as narrow
C2_Witness ==
    /\ hpd_pc = "returned"
    /\ min_int > 0
    /\ n_samples > 0
    /\ \E j \in (min_int + 1)..(Len(trace) - n_samples - 1) :
           d[j + n_samples + 1] - d[j + 1] = hpd_ret[2] - hpd_ret[1]

-----------------------------------------------------------------------------
(* Properties of MWC and SimpleRepression, checked under SpecModel *)

MWCNames == {"effector_conc", "ka", "ki", "ep_ai", "n_sites"}

\* some element of the number or array v is negative / is zero
HasNegative(v) == IsNumeric(v) /\ \E i \in 1..Len(v.x) : NumLt(v.x[i], Whole(0))
HasZero(v) == IsNumeric(v) /\ \E i \in 1..Len(v.x) : NumEq(v.x[i], Whole(0))

\* every element of the number or array v lies in [lo, hi] / in (lo, hi]
AllWithin(v, lo, hi) ==
    IsNumeric(v) /\ \A i \in 1..Len(v.x) :
        ~NumLt(v.x[i], lo) /\ ~NumLt(hi, v.x[i]) /\ ~IsNaN(v.x[i])
AllAbove(v, lo, hi) ==
    IsNumeric(v) /\ \A i \in 1..Len(v.x) : NumLt(lo, v.x[i]) /\ ~NumLt(hi, v.x[i])
AllFinite(v) == IsNumeric(v) /\ \A i \in 1..Len(v.x) : IsFinite(v.x[i])

\* two results agree as numbers, elementwise (a scalar against every element)
SameNumbers(a, b) ==
    /\ IsNumeric(a) /\ IsNumeric(b)
    /\ Len(a.x) = Len(b.x) \/ Len(a.x) = 1 \/ Len(b.x) = 1
    /\ \A i \in 1..Len(a.x) : \A j \in 1..Len(b.x) :
           (i = j \/ Len(a.x) = 1 \/ Len(b.x) = 1) => NumEq(a.x[i], b.x[j])

NumericArgs == \A k \in MWCNames : IsNumeric(mwc_kwargs[k])

\* C3: MWC(...) with effector_conc, ka, ki, ep_ai or n_sites None raises
\* RuntimeError('<name> is NoneType and must be defined.') naming a
\* parameter that is None, before any attribute is assigned.
C3_NoneIsRejected ==
    (obj = "MWC" /\ \E k \in MWCNames : IsNone(mwc_kwargs[k])) =>
        /\ init_exc.e = "RuntimeError"
        /\ \E k \in MWCNames :
              /\ IsNone(mwc_kwargs[k])
              /\ init_exc.m = k \o " is NoneType and must be defined."
        /\ mwc = UnsetSelf

\* C4: MWC(...) raises ValueError('ka and/or ki cannot be zero.') exactly
\* when the stored self.ka or self.ki contains a zero (so log_transform
\* with ka = 0, stored as 1, is accepted), and a constructed object has
\* non-zero stored ka and ki.
C4_ZeroIffStoredZero ==
    (obj = "MWC" /\ NumericArgs) =>
        /\ (init_exc = Raise("ValueError", "ka and/or ki cannot be zero."))
              <=> (HasZero(mwc.ka) \/ HasZero(mwc.ki))
        /\ init_exc = NoExc => ~HasZero(mwc.ka) /\ ~HasZero(mwc.ki)

\* the keywords of the positivity loops whose value has a negative element
NegativeMWC ==
    {k \in {"effector_conc", "ka", "ki", "n_sites"} :
        HasNegative([effector_conc |-> mwc.c, ka |-> mwc.ka, ki |-> mwc.ki,
                     n_sites |-> mwc.n][k])}
NegativeRep == {k \in {"R", "n_ns"} : HasNegative(rep[k])}
IsNotPositive(exc, names) ==
    /\ exc.e = "RuntimeError"
    /\ \E k \in names : exc.m = k \o " must be positive."

\* C5 as stated: MWC(...) raises RuntimeError('<name> must be positive.')
\* whenever an element of effector_conc, of the stored ka or ki, or of
\* n_sites is negative, scalar or array, and not otherwise; and
\* SimpleRepression(...) does so for R and n_ns.
C5_NegativeIsRejected ==
    /\ (obj = "MWC" /\ NumericArgs) =>
          IF NegativeMWC # {} THEN IsNotPositive(init_exc, NegativeMWC)
          ELSE init_exc.e # "RuntimeError"
    /\ (obj = "SimpleRepression" /\ IsNumeric(rep_args.R) /\ IsNumeric(rep_args.n_ns)) =>
          IF NegativeRep # {} THEN IsNotPositive(init_exc, NegativeRep)
          ELSE ~IsNotPositive(init_exc, {"R", "n_ns"})

\* C5 as amended: the zero check comes first.  When ka or ki as passed
\* contains a zero, ValueError is raised, negative elements or not;
\* otherwise a negative element raises RuntimeError naming the first such
\* keyword in the order effector_conc, ka, ki, n_sites, and non-negative
\* values are accepted.  SimpleRepression(...) raises RuntimeError naming R,
\* else n_ns, when one has a negative element, and none naming them
\* otherwise.
C5_NegativeIsRejectedAfterZeroCheck ==
    /\ (obj = "MWC" /\ NumericArgs) =>
          IF HasZero(mwc_kwargs.ka) \/ HasZero(mwc_kwargs.ki)
          THEN init_exc = Raise("ValueError", "ka and/or ki cannot be zero.")
          ELSE IF HasNegative(mwc.c) THEN IsNotPositive(init_exc, {"effector_conc"})
          ELSE IF HasNegative(mwc.ka) THEN IsNotPositive(init_exc, {"ka"})
          ELSE IF HasNegative(mwc.ki) THEN IsNotPositive(init_exc, {"ki"})
          ELSE IF HasNegative(mwc.n) THEN IsNotPositive(init_exc, {"n_sites"})
          ELSE init_exc = NoExc
    /\ (obj = "SimpleRepression" /\ IsNumeric(rep_args.R) /\ IsNumeric(rep_args.n_ns)) =>
          IF HasNegative(rep.R) THEN IsNotPositive(init_exc, {"R"})
          ELSE IF HasNegative(rep.n_ns) THEN IsNotPositive(init_exc, {"n_ns"})
          ELSE ~IsNotPositive(init_exc, {"R", "n_ns"})

\* C5's case: an array n_sites with a negative element is rejected by name,
\* after a non-negative effector_conc, ka and ki have passed
C5_Witness ==
    /\ obj = "MWC"
    /\ mwc_kwargs.n_sites.t = "arr"
    /\ Len(mwc.n.x) > 1
    /\ HasNegative(mwc.n)
    /\ mwc.c = PyNum(Whole(0))
    /\ IsNotPositive(init_exc, {"n_sites"})

\* C6: for a constructed MWC with effector_conc = 0, pact() equals
\* leakiness(), whatever ka, ki and n_sites.
C6_PactIsLeakinessAtZero ==
    (/\ obj = "MWC"
     /\ init_exc = NoExc
     /\ IsNumeric(mwc.ep_ai)
     /\ mwc.c = PyNum(Whole(0))
     /\ pact_ret # Unset
     /\ leak_ret # Unset) => SameNumbers(pact_ret, leak_ret)

FoldChangeCalled == obj = "SimpleRepression" /\ init_exc = NoExc /\ fc_ret # Unset

\* the pact fold_change is to use: MWC.pact() of an allosteric object, the
\* caller's otherwise
PactUsed == IF rep.allo = BoolVal(TRUE) THEN MWC_pact(rep.mwc) ELSE fc_args.pact

\* pact * R / n_ns * exp(-ep_r)
Occupancy == Mul(TrueDiv(Mul(PactUsed, rep.R), rep.n_ns), np_exp(Neg(rep.ep_r)))

C8_PactNoneIsComputed ==
    (/\ FoldChangeCalled
     /\ fc_args.wpa
     /\ IsNone(fc_args.pact)
     /\ rep.allo = BoolVal(TRUE) => NumericArgs) => IsNumeric(fc_ret)

\* C9: for a non-allosteric SimpleRepression, fold_change raises
\* TypeError('pact must be on the range [0, 1].') whenever the pact given,
\* a number or an array, has an element below 0 or above 1, and raises
\* nothing when all its elements lie in [0, 1].
C9_PactRangeChecked ==
    (/\ FoldChangeCalled
     /\ fc_args.wpa
     /\ rep.allo = BoolVal(FALSE)
     /\ IsNumeric(fc_args.pact)
     /\ ~HasZero(rep.n_ns)) =>
        IF AllWithin(fc_args.pact, Whole(0), Whole(1))
        THEN ~IsExc(fc_ret)
        ELSE fc_ret = Raise("TypeError", "pact must be on the range [0, 1].")

-----------------------------------------------------------------------------
(* Properties of compile_data.py, checked under SpecCompile *)

NoneAccepted == \A i \in 1..Len(dil_exp) : Lower(dil_exp[i].status) # "accepted"

\* C10: 'all data compiled' is printed only after both compiled files have
\* been written in this run; and a run in which no experiment is accepted
\* goes on until it stops with an error raised before the group loop
\* (line 33), having written no file and printed nothing.
C10_PrintedOnlyAfterBothWrites ==
    /\ stdout # <<>> =>
          /\ stdout = <<"all data compiled">>
          /\ written = CompiledFiles
          /\ CompiledFiles \subseteq on_disk
    /\ NoneAccepted =>
          /\ c_pc \in {"scan", "error"}
          /\ c_pc = "scan" => ENABLED CompileNext
          /\ c_pc = "error" => c_exc.type # "" /\ c_exc.line < 33
          /\ written = {}
          /\ stdout = <<>>
          /\ fluct_dfs = <<>>

\* C10's cases: a run over an accepted and a rejected experiment that
\* printed the message
C10_Witness ==
    /\ c_pc = "done"
    /\ stdout = <<"all data compiled">>
    /\ written = CompiledFiles
    /\ \E i \in 1..Len(dil_exp) : dil_exp[i].status = "rejected"
    /\ \E i \in 1..Len(dil_exp) : dil_exp[i].status = "Accepted"

\* C10's other case: no experiment is accepted and the run ended at line 27,
\* leaving the files of an earlier run as they were
C10_NoneAcceptedReached ==
    /\ NoneAccepted
    /\ Len(dil_exp) > 0
    /\ c_exc = Error("ValueError", 27)
    /\ on_disk = CompiledFiles

-----------------------------------------------------------------------------
(* Properties of log_posterior, checked under SpecPosterior *)

\* some element of I1 or of I2, as passed, is negative
NegativeIntensity ==
    (\E i \in 1..Len(I1) : I1[i] < 0) \/ (\E i \in 1..Len(I2) : I2[i] < 0)

\* the check of I1 and I2 has been passed or has raised
LpChecked == lp_pc \notin {"idle", "prefactor", "check"}

\* -v for a returned value <<v>>
Negated(ret) == <<LogScale(Whole(-1), ret[1])>>

=============================================================================
